---- MODULE Spec2Model ----
(***************************************************************************)
(* Model of kleimkuhler/shunting-yard: the Stack and Queue containers      *)
(* (src/stack.rs, src/queue.rs) and ShuntingYard::produce_postfix          *)
(* (src/shunting_yard.rs).                                                 *)
(*                                                                         *)
(* Three specifications share this module:                                 *)
(*   Spec           - one call of produce_postfix, one loop step at a time  *)
(*   FairSpec       - Spec, with the call always taking its next step       *)
(*   SpecContainers - a caller driving a Stack and a Queue through their    *)
(*                    public operations                                     *)
(***************************************************************************)
EXTENDS Integers, Sequences, FiniteSets, TLC

(***************************************************************************)
(* Bounds                                                                  *)
(***************************************************************************)
\* longest arbitrary (possibly malformed) input sequence
MaxLen == 3
\* most binary operators in a well-formed infix input
MaxOps == 3
\* largest operator precedence of the bounded token alphabet
MaxPrec == 2
\* most push calls on the driven Stack
MaxPush == 3
\* most enqueue calls on the driven Queue
MaxEnq == 3

(***************************************************************************)
(* Tokens: enum Assoc and trait TokenProperties                            *)
(***************************************************************************)
Assoc == {"Left", "None", "Right"}

\* a token is what TokenProperties exposes of it, plus its payload `val`
Tok(v, p, a) == [val |-> v, prec |-> p, assoc |-> a]

precedence(t) == t.prec

associativity(t) == t.assoc

\* an operand: precedence 0, associativity left at the trait's default
Operand(v) == Tok(v, 0, "Left")

OperandTokens == {Operand("a"), Operand("b")}

OperatorTokens == {Tok("op", p, a) : p \in 1..MaxPrec, a \in Assoc}

Tokens == OperandTokens \cup OperatorTokens

\* the tokens of tests::test_shunting_yard (impl TokenProperties for Token)
ValueInt(n) == Operand(n)
Minus == Tok("-", 1, "Left")
Multiply == Tok("*", 2, "Left")
Plus == Tok("+", 1, "Left")

TestInput == <<ValueInt("1"), Plus, ValueInt("2"), Multiply, ValueInt("3"), Minus, ValueInt("4")>>

TestOutput == <<ValueInt("1"), ValueInt("2"), ValueInt("3"), Multiply, Plus, ValueInt("4"), Minus>>

(***************************************************************************)
(* Inputs of produce_postfix                                               *)
(***************************************************************************)
\* every sequence of at most MaxLen tokens, well-formed or not
AnyInputs == UNION {[1..n -> Tokens] : n \in 0..MaxLen}

\* payloads to tell the operands of an infix expression apart
Names == <<"a", "b", "c", "d", "e", "f", "g", "h">>

\* x1 ps[1] x2 ps[2] ... x(k+1): the operators ps between named operands
Infix(ps) ==
    [i \in 1..(2 * Len(ps) + 1) |->
        IF i % 2 = 1
        THEN Operand(Names[(((i - 1) \div 2) % Len(Names)) + 1])
        ELSE ps[i \div 2]]

\* operand (operator operand)*, with at most MaxOps operators
InfixInputs ==
    UNION {{Infix(ps) : ps \in [1..k -> OperatorTokens]} : k \in 0..MaxOps}

Inputs == AnyInputs \cup InfixInputs \cup {TestInput}

(***************************************************************************)
(* A call's outcome: a returned value or a panic                           *)
(***************************************************************************)
Panic(m) == [kind |-> "panic", msg |-> m]

Value(v) == [kind |-> "value", val |-> v]

(***************************************************************************)
(* Stack<T>(Vec<T>): the top is the last element                           *)
(***************************************************************************)
Stack_default == <<>>

\* faulty variant: the stack never reports empty
Stack_is_empty_never(s) == FALSE

Stack_is_empty(s) == Len(s) = 0

\* faulty variant: a default value instead of the panic
Stack_peek_default(s) ==
    IF Len(s) = 0 THEN Value(0) ELSE Value(s[Len(s)])

\* faulty variant: the bottom element instead of the top
Stack_peek_bottom(s) ==
    IF Len(s) = 0
    THEN Panic("cannot peek into an empty stack")
    ELSE Value(s[1])

Stack_peek(s) ==
    IF Len(s) = 0
    THEN Panic("cannot peek into an empty stack")
    ELSE Value(s[Len(s)])

\* faulty variant: the bottom element is removed
Stack_pop_bottom(s) ==
    IF Len(s) = 0
    THEN [kind |-> "panic", msg |-> "cannot pop from an empty stack", self |-> s]
    ELSE [kind |-> "value", val |-> s[1], self |-> SubSeq(s, 2, Len(s))]

\* Vec::pop is None on an empty vector, and expect panics on None
Stack_pop(s) ==
    IF Len(s) = 0
    THEN [kind |-> "panic", msg |-> "cannot pop from an empty stack", self |-> s]
    ELSE [kind |-> "value", val |-> s[Len(s)], self |-> SubSeq(s, 1, Len(s) - 1)]

\* faulty variant: the value overwrites the top instead of growing the vector
Stack_push_overwrite(s, value) ==
    IF Len(s) = 0 THEN <<value>> ELSE [s EXCEPT ![Len(s)] = value]

\* faulty variant: the value is pushed twice
Stack_push_twice(s, value) == Append(Append(s, value), value)

Stack_push(s, value) == Append(s, value)

(***************************************************************************)
(* Queue<T>(Vec<T>): the front is the first element                        *)
(***************************************************************************)
Queue_default == <<>>

Queue_new(in) == in

\* faulty variant: the back element is removed
Queue_dequeue_back(q) ==
    IF Len(q) = 0
    THEN [kind |-> "panic", msg |-> "cannot dequeue from an empty queue", self |-> q]
    ELSE [kind |-> "value", val |-> q[Len(q)], self |-> SubSeq(q, 1, Len(q) - 1)]

Queue_dequeue(q) ==
    IF Len(q) = 0
    THEN [kind |-> "panic", msg |-> "cannot dequeue from an empty queue", self |-> q]
    ELSE [kind |-> "value", val |-> q[1], self |-> SubSeq(q, 2, Len(q))]

\* faulty variant: the value is inserted at the front
Queue_enqueue_front(q, value) == <<value>> \o q

Queue_enqueue(q, value) == Append(q, value)

Queue_is_empty(q) == Len(q) = 0

Queue_peek(q) ==
    IF Len(q) = 0
    THEN Panic("cannot peek into an empty queue")
    ELSE Value(q[1])

(***************************************************************************)
(* ShuntingYard: the operand test and should_stack                         *)
(***************************************************************************)
\* faulty variant: the operand test inverted
is_operand_inverted(t) == precedence(t) # 0

\* `token.precedence() == 0`: the token is an operand
is_operand(t) == precedence(t) = 0

\* faulty variant: the tie-break on equal precedence left out
should_stack_strict(cur_top, cur_prec) == precedence(cur_top) > cur_prec

\* faulty variant: the precedence comparison turned around
should_stack_lower(cur_top, cur_prec) ==
    \/ precedence(cur_top) < cur_prec
    \/ precedence(cur_top) = cur_prec /\ associativity(cur_top) = "Left"

\* faulty variant: the associativity of the top is not looked at
should_stack_any_assoc(cur_top, cur_prec) == precedence(cur_top) >= cur_prec

\* faulty variant: the tie-break asks for Right instead of Left
should_stack_right_only(cur_top, cur_prec) ==
    \/ precedence(cur_top) > cur_prec
    \/ precedence(cur_top) = cur_prec /\ associativity(cur_top) = "Right"

\* faulty variant: only Right is kept on the stack at equal precedence
should_stack_not_right(cur_top, cur_prec) ==
    \/ precedence(cur_top) > cur_prec
    \/ precedence(cur_top) = cur_prec /\ associativity(cur_top) # "Right"

should_stack(cur_top, cur_prec) ==
    \/ precedence(cur_top) > cur_prec
    \/ precedence(cur_top) = cur_prec /\ associativity(cur_top) = "Left"

VARIABLES
    input,      \* self.input, as handed to ShuntingYard::new
    tokens,     \* the unread remainder of the iterator `tokens`
    token,      \* the loop variable `token`: <<>> outside the loop body
    parsed,     \* the output Queue
    operators,  \* the operator Stack
    pc,         \* position in produce_postfix
    snap,       \* parsed and operators as they were when the current
                \* operator was read, or when the input ran out
    count,      \* how often tokens.next() gave a token, operators.push
                \* and operators.pop were called so far
    stack,      \* the driven Stack
    queue,      \* the driven Queue
    call,       \* the last container operation called
    ret,        \* its outcome
    npush,      \* number of push calls so far
    popped,     \* elements returned by pop so far
    nenq,       \* number of enqueue calls so far
    dequeued    \* elements returned by dequeue so far

yardVars == <<input, tokens, token, parsed, operators, pc, snap, count>>

contVars == <<stack, queue, call, ret, npush, popped, nenq, dequeued>>

vars == <<input, tokens, token, parsed, operators, pc, snap, count,
          stack, queue, call, ret, npush, popped, nenq, dequeued>>

NoCall == [kind |-> "none"]

ContInit ==
    /\ stack = Stack_default
    /\ queue = Queue_default
    /\ call = "new"
    /\ ret = NoCall
    /\ npush = 0
    /\ popped = {}
    /\ nenq = 0
    /\ dequeued = {}

YardInit ==
    /\ input \in Inputs
    /\ tokens = input
    /\ token = <<>>
    /\ parsed = Queue_default
    /\ operators = Stack_default
    /\ pc = "loop"
    /\ snap = [parsed |-> <<>>, operators |-> <<>>]
    /\ count = [reads |-> 0, pushes |-> 0, pops |-> 0]

(***************************************************************************)
(* produce_postfix, one loop step per action                               *)
(***************************************************************************)
\* tokens.next() is an operand: enqueue it and continue
NextOperand ==
    /\ pc = "loop"
    /\ tokens # <<>>
    /\ is_operand(Head(tokens))
    /\ parsed' = Queue_enqueue(parsed, Head(tokens))
    /\ tokens' = Tail(tokens)
    /\ count' = [count EXCEPT !.reads = @ + 1]
    /\ UNCHANGED <<input, token, operators, pc, snap>>

\* tokens.next() is an operator: enter the inner while loop
NextOperator ==
    /\ pc = "loop"
    /\ tokens # <<>>
    /\ ~is_operand(Head(tokens))
    /\ token' = <<Head(tokens)>>
    /\ tokens' = Tail(tokens)
    /\ pc' = "inner"
    /\ snap' = [parsed |-> parsed, operators |-> operators]
    /\ count' = [count EXCEPT !.reads = @ + 1]
    /\ UNCHANGED <<input, parsed, operators>>

\* the inner loop's test: run the body again?
InnerContinues ==
    /\ ~Stack_is_empty(operators)
    /\ LET top == Stack_peek(operators)
       IN  top.kind = "panic" \/ should_stack(top.val, precedence(token[1]))

\* pop the result of `operators.pop()` into `parsed`, or panic
PopIntoParsed(then) ==
    LET r == Stack_pop(operators)
    IN  /\ count' = [count EXCEPT !.pops = @ + 1]
        /\ IF r.kind = "panic"
           THEN /\ pc' = "panicked"
                /\ UNCHANGED <<parsed, operators>>
           ELSE /\ parsed' = Queue_enqueue(parsed, r.val)
                /\ operators' = r.self
                /\ pc' = then

\* one iteration of the inner loop: parsed.enqueue(operators.pop())
InnerPop ==
    /\ pc = "inner"
    /\ InnerContinues
    /\ IF Stack_peek(operators).kind = "panic"
       THEN pc' = "panicked" /\ UNCHANGED <<parsed, operators, count>>
       ELSE PopIntoParsed("inner")
    /\ UNCHANGED <<input, tokens, token, snap>>

\* the inner loop ends (stack empty, or break): operators.push(token)
InnerPush ==
    /\ pc = "inner"
    /\ ~InnerContinues
    /\ operators' = Stack_push(operators, token[1])
    /\ token' = <<>>
    /\ pc' = "loop"
    /\ count' = [count EXCEPT !.pushes = @ + 1]
    /\ UNCHANGED <<input, tokens, parsed, snap>>

\* tokens.next() is None: leave the scan
Exhausted ==
    /\ pc = "loop"
    /\ tokens = <<>>
    /\ pc' = "unwind"
    /\ snap' = [parsed |-> parsed, operators |-> operators]
    /\ UNCHANGED <<input, tokens, token, parsed, operators, count>>

\* one iteration of the final loop: parsed.enqueue(operators.pop())
UnwindPop ==
    /\ pc = "unwind"
    /\ ~Stack_is_empty(operators)
    /\ PopIntoParsed("unwind")
    /\ UNCHANGED <<input, tokens, token, snap>>

\* the final loop ends: return parsed
Return ==
    /\ pc = "unwind"
    /\ Stack_is_empty(operators)
    /\ pc' = "done"
    /\ UNCHANGED <<input, tokens, token, parsed, operators, snap, count>>

Init == YardInit /\ ContInit

Next ==
    \/ NextOperand /\ UNCHANGED contVars
    \/ NextOperator /\ UNCHANGED contVars
    \/ InnerPop /\ UNCHANGED contVars
    \/ InnerPush /\ UNCHANGED contVars
    \/ Exhausted /\ UNCHANGED contVars
    \/ UnwindPop /\ UNCHANGED contVars
    \/ Return /\ UNCHANGED contVars

Spec == Init /\ [][Next]_vars

\* produce_postfix is straight-line sequential code: once called it keeps
\* taking its next step until it returns or panics
FairSpec == Spec /\ WF_vars(Next)

(***************************************************************************)
(* produce_postfix as a function of its input: the same loops, run to the   *)
(* end.  It reads its tokens only through precedence and associativity.    *)
(***************************************************************************)
RECURSIVE InnerLoop(_, _, _)
\* lines 62-70: pop while should_stack, then push the token
InnerLoop(q, s, t) ==
    IF ~Stack_is_empty(s) /\ should_stack(Stack_peek(s).val, precedence(t))
    THEN InnerLoop(Queue_enqueue(q, Stack_pop(s).val), Stack_pop(s).self, t)
    ELSE [parsed |-> q, operators |-> Stack_push(s, t)]

RECURSIVE UnwindLoop(_, _)
\* lines 74-78: enqueue the remaining operators, return parsed
UnwindLoop(q, s) ==
    IF ~Stack_is_empty(s)
    THEN UnwindLoop(Queue_enqueue(q, Stack_pop(s).val), Stack_pop(s).self)
    ELSE q

RECURSIVE ScanLoop(_, _, _)
\* lines 48-71: the loop over tokens.next()
ScanLoop(ts, q, s) ==
    IF ts = <<>>
    THEN UnwindLoop(q, s)
    ELSE IF is_operand(Head(ts))
         THEN ScanLoop(Tail(ts), Queue_enqueue(q, Head(ts)), s)
         ELSE LET r == InnerLoop(q, s, Head(ts))
              IN  ScanLoop(Tail(ts), r.parsed, r.operators)

produce_postfix(in) == ScanLoop(in, Queue_default, Stack_default)

(***************************************************************************)
(* A caller of the containers.  The n-th push pushes the value n and the    *)
(* n-th enqueue enqueues the value n (as in tests::test_stack_operations    *)
(* and tests::test_queue_operations), so that every element is told apart.  *)
(* A panic leaves the container as it was; the outcome is kept in `ret`.    *)
(***************************************************************************)
Unit == [kind |-> "unit"]

Bool(b) == [kind |-> "bool", val |-> b]

\* what the caller sees of an outcome
Outcome(r) == IF r.kind = "panic" THEN Panic(r.msg) ELSE Value(r.val)

StackIsEmpty ==
    /\ call' = "Stack::is_empty"
    /\ ret' = Bool(Stack_is_empty(stack))
    /\ UNCHANGED <<stack, queue, npush, popped, nenq, dequeued>>

StackPeek ==
    /\ call' = "Stack::peek"
    /\ ret' = Stack_peek(stack)
    /\ UNCHANGED <<stack, queue, npush, popped, nenq, dequeued>>

StackPop ==
    /\ call' = "Stack::pop"
    /\ LET r == Stack_pop(stack)
       IN  /\ ret' = Outcome(r)
           /\ stack' = r.self
           /\ popped' = IF r.kind = "value" THEN popped \cup {r.val} ELSE popped
    /\ UNCHANGED <<queue, npush, nenq, dequeued>>

StackPush ==
    /\ npush < MaxPush
    /\ call' = "Stack::push"
    /\ ret' = Unit
    /\ stack' = Stack_push(stack, npush + 1)
    /\ npush' = npush + 1
    /\ UNCHANGED <<queue, popped, nenq, dequeued>>

QueueDequeue ==
    /\ call' = "Queue::dequeue"
    /\ LET r == Queue_dequeue(queue)
       IN  /\ ret' = Outcome(r)
           /\ queue' = r.self
           /\ dequeued' = IF r.kind = "value" THEN dequeued \cup {r.val} ELSE dequeued
    /\ UNCHANGED <<stack, npush, popped, nenq>>

QueueEnqueue ==
    /\ nenq < MaxEnq
    /\ call' = "Queue::enqueue"
    /\ ret' = Unit
    /\ queue' = Queue_enqueue(queue, nenq + 1)
    /\ nenq' = nenq + 1
    /\ UNCHANGED <<stack, npush, popped, dequeued>>

QueueIsEmpty ==
    /\ call' = "Queue::is_empty"
    /\ ret' = Bool(Queue_is_empty(queue))
    /\ UNCHANGED <<stack, queue, npush, popped, nenq, dequeued>>

QueuePeek ==
    /\ call' = "Queue::peek"
    /\ ret' = Queue_peek(queue)
    /\ UNCHANGED <<stack, queue, npush, popped, nenq, dequeued>>

\* no conversion runs beside the driven containers
YardIdle ==
    /\ input = <<>>
    /\ tokens = <<>>
    /\ token = <<>>
    /\ parsed = Queue_default
    /\ operators = Stack_default
    /\ pc = "idle"
    /\ snap = [parsed |-> <<>>, operators |-> <<>>]
    /\ count = [reads |-> 0, pushes |-> 0, pops |-> 0]

InitContainers == YardIdle /\ ContInit

NextContainers ==
    \/ StackIsEmpty /\ UNCHANGED yardVars
    \/ StackPeek /\ UNCHANGED yardVars
    \/ StackPop /\ UNCHANGED yardVars
    \/ StackPush /\ UNCHANGED yardVars
    \/ QueueDequeue /\ UNCHANGED yardVars
    \/ QueueEnqueue /\ UNCHANGED yardVars
    \/ QueueIsEmpty /\ UNCHANGED yardVars
    \/ QueuePeek /\ UNCHANGED yardVars

SpecContainers == InitContainers /\ [][NextContainers]_vars

(***************************************************************************)
(* Properties of the containers (SpecContainers)                           *)
(***************************************************************************)
Max(S) == CHOOSE x \in S : \A y \in S : y <= x

Min(S) == CHOOSE x \in S : \A y \in S : x <= y

Range(s) == {s[i] : i \in 1..Len(s)}

\* the elements pushed and not yet returned by pop
StackLive == (1..npush) \ popped

\* the elements enqueued and not yet returned by dequeue
QueueLive == (1..nenq) \ dequeued

C8_Step ==
    /\ (call' \in {"Stack::peek", "Stack::pop"} /\ StackLive = {})
          => ret'.kind = "panic" /\ stack' = stack
    /\ (call' \in {"Queue::peek", "Queue::dequeue"} /\ QueueLive = {})
          => ret'.kind = "panic" /\ queue' = queue
    /\ call' \in {"Stack::is_empty", "Queue::is_empty"} => ret'.kind = "bool"
    /\ (call' = "Stack::is_empty" /\ npush = 0) => ret' = Bool(TRUE)
    /\ (call' = "Queue::is_empty" /\ nenq = 0) => ret' = Bool(TRUE)

\* C8: peek and pop on an empty Stack, and peek and dequeue on an empty
\* Queue, end in a panic and return no value; is_empty never panics and
\* answers true on a freshly constructed container.
C8_EmptyAccessPanics == [][C8_Step]_vars

C8_Witness == call = "Stack::peek" /\ npush = 0 /\ ret.kind = "panic"

C9_Step ==
    /\ (call' = "Stack::pop" /\ StackLive # {})
          => /\ ret' = Value(Max(StackLive))
             /\ popped' = popped \cup {Max(StackLive)}
             /\ Range(stack') = Range(stack) \ {Max(StackLive)}
    /\ (call' = "Stack::peek" /\ StackLive # {})
          => ret' = Value(Max(StackLive)) /\ stack' = stack
    /\ call' = "Stack::is_empty" => ret' = Bool(StackLive = {})

\* C9: Stack is LIFO: pop removes and returns the most recently pushed
\* element not yet popped, peek returns that element and leaves the stack
\* as it was, and is_empty is true exactly when every pushed element has
\* been popped.
C9_StackLifo ==
    /\ [](Range(stack) = StackLive /\ (Stack_is_empty(stack) <=> StackLive = {}))
    /\ [][C9_Step]_vars

\* pop has returned 2 while 1 is still stacked and 3 has come and gone
C9_Witness ==
    /\ call = "Stack::pop"
    /\ ret = Value(2)
    /\ popped = {2, 3}
    /\ stack = <<1>>

C10_Step ==
    /\ (call' = "Queue::dequeue" /\ QueueLive # {})
          => /\ ret' = Value(Min(QueueLive))
             /\ dequeued' = dequeued \cup {Min(QueueLive)}
             /\ Range(queue') = Range(queue) \ {Min(QueueLive)}
    /\ (call' = "Queue::peek" /\ QueueLive # {})
          => ret' = Value(Min(QueueLive)) /\ queue' = queue
    /\ call' = "Queue::is_empty" => ret' = Bool(QueueLive = {})

\* C10: Queue is FIFO: dequeue removes and returns the oldest enqueued
\* element not yet dequeued, peek returns that element and leaves the queue
\* as it was, and is_empty is true exactly when every enqueued element has
\* been dequeued.
C10_QueueFifo ==
    /\ [](Range(queue) = QueueLive /\ (Queue_is_empty(queue) <=> QueueLive = {}))
    /\ [][C10_Step]_vars

\* dequeue has returned 2 after 1, while 3 still waits
C10_Witness ==
    /\ call = "Queue::dequeue"
    /\ ret = Value(2)
    /\ dequeued = {1, 2}
    /\ queue = <<3>>

(***************************************************************************)
(* Properties of produce_postfix (Spec)                                    *)
(***************************************************************************)
IsOperand(t) == precedence(t) = 0

IsOperator(t) == precedence(t) # 0

Count(s, t) == Cardinality({i \in 1..Len(s) : s[i] = t})

Reverse(s) == [i \in 1..Len(s) |-> s[Len(s) + 1 - i]]

AllOperands(s) == \A i \in 1..Len(s) : IsOperand(s[i])

\* operand (operator operand)*
WellFormedInfix(s) ==
    /\ Len(s) % 2 = 1
    /\ \A i \in 1..Len(s) : IF i % 2 = 1 THEN IsOperand(s[i]) ELSE IsOperator(s[i])

AllLeft(s) == \A i \in 1..Len(s) : IsOperator(s[i]) => s[i].assoc = "Left"

\* C1: the output is a permutation of the input, of the same length
C1_Permutation ==
    pc = "done" =>
        /\ Len(parsed) = Len(input)
        /\ \A t \in Range(input) \cup Range(parsed) : Count(parsed, t) = Count(input, t)

\* a token occurs twice in the input, an operator was held back
C1_Witness ==
    /\ pc = "done"
    /\ parsed # input
    /\ \E t \in Range(input) : Count(input, t) = 2 /\ Count(parsed, t) = 2

RECURSIVE Postfix(_)
\* The postfix form of a well-formed infix expression of left-associative
\* operators: the last operator applied is the rightmost one of the lowest
\* precedence, its operands are what stands left and right of it.
Postfix(e) ==
    IF Len(e) <= 1
    THEN e
    ELSE LET ops == {i \in 1..Len(e) : i % 2 = 0}
             low == {i \in ops : \A j \in ops : e[i].prec <= e[j].prec}
             k == Max(low)
         IN  Postfix(SubSeq(e, 1, k - 1)) \o Postfix(SubSeq(e, k + 1, Len(e))) \o <<e[k]>>

\* C2: on a well-formed infix input of left-associative operators the output
\* is the postfix form in which higher precedence binds tighter and equal
\* precedence groups left to right; 1 + 2 * 3 - 4 gives 1 2 3 * + 4 -.
C2_LeftAssocPostfix ==
    pc = "done" =>
        /\ (WellFormedInfix(input) /\ AllLeft(input)) => parsed = Postfix(input)
        /\ input = TestInput => parsed = Queue_new(TestOutput)

C2_Witness == pc = "done" /\ input = TestInput /\ parsed = Queue_new(TestOutput)

\* C3: the operands keep their relative order
C3_OperandOrder ==
    pc = "done" => SelectSeq(parsed, IsOperand) = SelectSeq(input, IsOperand)

\* two different operands around operators that were moved
C3_Witness ==
    /\ pc = "done"
    /\ parsed # input
    /\ SelectSeq(parsed, IsOperand) = <<Operand("a"), Operand("b")>>

\* C4: at the end of input every pending operator is popped and enqueued:
\* on return the stack is empty and the operators pending when the input
\* ran out are the tail of the output, top of stack first.
C4_UnwindLifo ==
    /\ pc = "done" =>
          /\ operators = <<>>
          /\ parsed = snap.parsed \o Reverse(snap.operators)
    /\ pc = "unwind" =>
          parsed \o Reverse(operators) = snap.parsed \o Reverse(snap.operators)

\* the input ended in an operator and two operators were pending
C4_Witness ==
    /\ pc = "done"
    /\ input # <<>>
    /\ IsOperator(input[Len(input)])
    /\ Len(snap.operators) >= 2
    /\ snap.operators[1] # snap.operators[2]

C5_Step ==
    (pc = "inner" /\ pc' = "loop") =>
        LET c == token[1]
            was == snap.operators
            k == Len(operators)
        IN  /\ operators' = Append(operators, c)
            /\ \A i \in 1..k : operators[i].prec <= c.prec
            /\ k <= Len(was)
            /\ operators = SubSeq(was, 1, k)
            /\ parsed = snap.parsed \o Reverse(SubSeq(was, k + 1, Len(was)))
            /\ \A i \in 1..Len(was) : was[i].prec > c.prec => i > k

\* C5: when an operator c is pushed, every operator that was on the stack
\* with a precedence above c's has been popped and enqueued, and none of a
\* higher precedence is left beneath c.
C5_HigherResolvedFirst == [][C5_Step]_vars

\* c was pushed over a remaining operator after a higher one was emitted
C5_Witness ==
    /\ pc = "loop"
    /\ Len(operators) >= 2
    /\ Len(snap.operators) >= 2
    /\ Len(parsed) > Len(snap.parsed)
    /\ snap.operators[Len(snap.operators)].prec > operators[Len(operators)].prec

Tag(s) == [i \in 1..Len(s) |-> [val |-> s[i].val, prec |-> s[i].prec,
                                 assoc |-> s[i].assoc, pos |-> i]]

\* None replaced by Right on the tokens at the positions S
NoneToRight(s, S) ==
    [i \in 1..Len(s) |->
        IF i \in S /\ s[i].assoc = "None" THEN [s[i] EXCEPT !.assoc = "Right"] ELSE s[i]]

NonePositions(s) == {i \in 1..Len(s) : s[i].assoc = "None"}

\* the input positions of the tokens of an output, front to back
Order(s) == [i \in 1..Len(s) |-> s[i].pos]

C6_Step ==
    (pc = "inner" /\ pc' = "inner") =>
        LET top == operators[Len(operators)]
        IN  ~(top.assoc \in {"None", "Right"} /\ top.prec = token[1].prec)

\* C6: None behaves like Right: replacing None by Right on any tokens of the
\* input leaves the order of the output unchanged, and a stacked operator of
\* associativity None or Right is never popped during the scan by an
\* incoming operator of equal precedence.
C6_NoneLikeRight ==
    /\ [](pc = "done" =>
            \A S \in SUBSET NonePositions(input) :
                LET order == Order(produce_postfix(Tag(NoneToRight(input, S))))
                IN  /\ order = Order(produce_postfix(Tag(input)))
                    /\ parsed = [i \in 1..Len(order) |-> input[order[i]]])
    /\ [][C6_Step]_vars

\* a None operator stayed on the stack under an equal-precedence one
C6_Witness ==
    /\ pc = "done"
    /\ Len(snap.operators) >= 2
    /\ snap.operators[1].assoc = "None"
    /\ snap.operators[1].prec = snap.operators[2].prec

\* C7: an input of operands only is returned unchanged, without a panic and
\* without anything ever being pushed onto the operator stack.
C7_OperandsOnly ==
    AllOperands(input) =>
        /\ operators = <<>>
        /\ token = <<>>
        /\ pc # "panicked"
        /\ pc = "done" => parsed = input

C7_Witness == pc = "done" /\ AllOperands(input) /\ Len(input) = 1 /\ parsed = input

C11_Step ==
    (pc = "loop" /\ tokens # <<>> /\ IsOperand(Head(tokens))) =>
        /\ parsed' = Append(parsed, Head(tokens))
        /\ operators' = operators
        /\ tokens' = Tail(tokens)

\* C11: processing an operand appends exactly that token to the back of the
\* output queue and leaves the operator stack as it was; no operand is ever
\* on the operator stack.
C11_OperandStraightToOutput ==
    /\ [](\A i \in 1..Len(operators) : IsOperator(operators[i]))
    /\ [][C11_Step]_vars

\* an operand was just enqueued behind others while operators were stacked
C11_Witness ==
    /\ pc = "loop"
    /\ count.reads >= 3
    /\ IsOperand(input[count.reads])
    /\ parsed[Len(parsed)] = input[count.reads]
    /\ Len(parsed) >= 2
    /\ operators # <<>>

C12_Step ==
    count'.pops > count.pops => ~Stack_is_empty(operators) /\ operators # <<>>

\* C12: produce_postfix never peeks or pops the operator stack while it is
\* empty: on every input, malformed ones included, it reaches no panic, and
\* it can always take its next step until it has returned.
C12_NoEmptyStackAccess ==
    /\ [](pc # "panicked" /\ (pc # "done" => ENABLED Next))
    /\ [][C12_Step]_vars

\* returned on an input of operators only
C12_Witness ==
    /\ pc = "done"
    /\ Len(input) = 3
    /\ \A i \in 1..Len(input) : IsOperator(input[i])
    /\ Len(parsed) = 3

NumOperators(s) == Cardinality({i \in 1..Len(s) : IsOperator(s[i])})

\* C13: produce_postfix terminates on every input; it reads every token once,
\* left to right, pushes every operator once and pops it once, so that the
\* two popping loops together pop as often as there are operator tokens.
C13_TerminatesCounted ==
    /\ <>(pc = "done")
    /\ [](/\ count.reads <= Len(input)
          /\ tokens = SubSeq(input, count.reads + 1, Len(input))
          /\ count.pushes + Len(token) = NumOperators(SubSeq(input, 1, count.reads))
          /\ count.pops = NumOperators(parsed)
          /\ count.pushes - count.pops = Len(operators))
    /\ [](pc = "done" =>
            /\ count.reads = Len(input)
            /\ count.pushes = NumOperators(input)
            /\ count.pops = NumOperators(input))

\* returned after popping in the inner loop and in the final loop
C13_Witness ==
    /\ pc = "done"
    /\ count.pops = 3
    /\ Len(snap.operators) = 2

\* where the token of input position i stands in an output order
OutPos(order, i) == CHOOSE k \in 1..Len(order) : order[k] = i

\* operators at i < j with no operator between them
AdjacentOperators(s, i, j) ==
    /\ i < j
    /\ IsOperator(s[i])
    /\ IsOperator(s[j])
    /\ \A k \in (i + 1)..(j - 1) : IsOperand(s[k])

NotLeft(t) == t.assoc \in {"Right", "None"}

Caret == Tok("op", 1, "Right")

C14_Step ==
    (pc = "inner" /\ pc' = "inner" /\ NotLeft(operators[Len(operators)])) =>
        token[1].prec < operators[Len(operators)].prec

\* C14: in a run of consecutive equal-precedence operators of associativity
\* Right or None none is popped when the next arrives; each stays stacked
\* until an operator of strictly lower precedence arrives or the input ends,
\* and the run is emitted in reverse input order: a ^ b ^ c gives a b c ^ ^.
C14_RightRunsReversed ==
    /\ [](pc = "done" =>
            LET order == Order(produce_postfix(Tag(input)))
            IN  /\ parsed = [k \in 1..Len(order) |-> input[order[k]]]
                /\ \A i, j \in 1..Len(input) :
                      (/\ AdjacentOperators(input, i, j)
                       /\ input[i].prec = input[j].prec
                       /\ NotLeft(input[i])
                       /\ NotLeft(input[j]))
                      => OutPos(order, j) < OutPos(order, i))
    /\ [](pc = "done" /\ input = Infix(<<Caret, Caret>>) =>
            parsed = <<Operand("a"), Operand("b"), Operand("c"), Caret, Caret>>)
    /\ [][C14_Step]_vars

C14_Witness ==
    /\ pc = "done"
    /\ input = Infix(<<Caret, Caret>>)
    /\ parsed = <<Operand("a"), Operand("b"), Operand("c"), Caret, Caret>>

\* the depth of an evaluation stack after the first k tokens of s: every
\* operand adds one value, every binary operator replaces two values by one
Depth(s, k) ==
    Cardinality({i \in 1..k : IsOperand(s[i])}) - Cardinality({i \in 1..k : IsOperator(s[i])})

ValidPostfix(s) ==
    /\ \A k \in 1..Len(s) : IsOperator(s[k]) => Depth(s, k - 1) >= 2
    /\ \A k \in 1..Len(s) : Depth(s, k) >= 1
    /\ Depth(s, Len(s)) = 1

\* C15: on every well-formed infix input, whatever the precedences and
\* associativities, the output is a valid postfix expression: every operator
\* finds two values on the evaluation stack and exactly one value is left.
C15_ValidPostfix ==
    (pc = "done" /\ WellFormedInfix(input)) => ValidPostfix(parsed)

\* three operators of differing associativity, one emitted during the scan
C15_Witness ==
    /\ pc = "done"
    /\ WellFormedInfix(input)
    /\ Len(input) = 7
    /\ Len(snap.operators) = 2
    /\ ~AllLeft(input)
    /\ ValidPostfix(parsed)

\* C16: the operator stack is ordered by precedence from bottom to top: of
\* two adjacent stacked operators the lower has a strictly smaller
\* precedence, or the same precedence and is not left-associative.
C16_StackOrdered ==
    \A i \in 1..(Len(operators) - 1) :
        \/ operators[i].prec < operators[i + 1].prec
        \/ operators[i].prec = operators[i + 1].prec /\ operators[i].assoc # "Left"

\* between two token steps, an equal pair beneath a strictly higher operator
C16_Witness ==
    /\ pc = "loop"
    /\ Len(operators) = 3
    /\ operators[1].prec = operators[2].prec
    /\ operators[2].prec < operators[3].prec

LeftOp(t, p) == IsOperator(t) /\ t.prec = p /\ t.assoc = "Left"

C17_Step ==
    (pc = "inner" /\ pc' = "loop" /\ token[1].assoc = "Left") =>
        LET p == token[1].prec
        IN  /\ \A i \in 1..Len(operators) : ~LeftOp(operators[i], p)
            /\ Cardinality({i \in 1..(count.reads - 1) : LeftOp(input[i], p)})
                 = Cardinality({k \in 1..Len(parsed) : LeftOp(parsed[k], p)})

\* C17: on every input two left-associative operators of equal precedence
\* keep their relative order: the earlier one is in the output before the
\* later one is pushed.
C17_LeftEqualKeepOrder ==
    /\ [](pc = "done" =>
            LET order == Order(produce_postfix(Tag(input)))
            IN  /\ parsed = [k \in 1..Len(order) |-> input[order[k]]]
                /\ \A i, j \in 1..Len(input) :
                      (i < j /\ LeftOp(input[i], input[j].prec) /\ input[j].assoc = "Left")
                      => OutPos(order, i) < OutPos(order, j))
    /\ [][C17_Step]_vars

\* a left-associative operator was pushed after an equal one and a higher
\* one above it had been emitted
C17_Witness ==
    /\ pc = "loop"
    /\ Len(snap.operators) = 2
    /\ Len(operators) = 1
    /\ LeftOp(snap.operators[1], operators[1].prec)
    /\ operators[1].assoc = "Left"
    /\ Len(parsed) = Len(snap.parsed) + 2

\* how often t is held by the input remainder, the loop variable, the stack
\* and the output together
Held(t) == Count(tokens, t) + Count(token, t) + Count(operators, t) + Count(parsed, t)

\* the moves of one step: operand input -> output, operator input -> loop
\* variable -> stack, top of stack -> output, or no move at all
C18_Step ==
    \/ /\ tokens # <<>>
       /\ IsOperand(Head(tokens))
       /\ tokens' = Tail(tokens)
       /\ parsed' = Append(parsed, Head(tokens))
       /\ operators' = operators
       /\ token' = token
    \/ /\ tokens # <<>>
       /\ IsOperator(Head(tokens))
       /\ tokens' = Tail(tokens)
       /\ token' = <<Head(tokens)>>
       /\ operators' = operators
       /\ parsed' = parsed
    \/ /\ token # <<>>
       /\ token' = <<>>
       /\ operators' = Append(operators, token[1])
       /\ tokens' = tokens
       /\ parsed' = parsed
    \/ /\ operators # <<>>
       /\ operators' = SubSeq(operators, 1, Len(operators) - 1)
       /\ parsed' = Append(parsed, operators[Len(operators)])
       /\ tokens' = tokens
       /\ token' = token
    \/ UNCHANGED <<tokens, token, operators, parsed>>

\* C18: every input token is in exactly one place: the unread remainder of
\* the input, the operator stack or the output queue (an operator that has
\* been read is on its way to the stack, in the loop variable, until the pops
\* it causes are done); tokens only move input -> output (operands),
\* input -> stack (operators) or stack -> output, and what has reached the
\* output is never removed or reordered.
C18_TokenConservation ==
    /\ [](/\ \A t \in Range(input) \cup Range(tokens) \cup Range(token)
                        \cup Range(operators) \cup Range(parsed) :
                 Count(input, t) = Held(t)
          /\ Len(input) = Len(tokens) + Len(token) + Len(operators) + Len(parsed)
          /\ pc # "inner" => token = <<>>
          /\ Len(token) <= 1)
    /\ [][C18_Step /\ SubSeq(parsed', 1, Len(parsed)) = parsed]_vars

\* between two token steps, with tokens in each of the three places
C18_Witness ==
    /\ pc = "loop"
    /\ tokens # <<>>
    /\ operators # <<>>
    /\ \E k \in 1..Len(parsed) : IsOperator(parsed[k])
    /\ \E k \in 1..Len(parsed) : IsOperand(parsed[k])

====
